---- MODULE Spec2Model ----
(***************************************************************************)
(* A model of go-real-time-poll (main.go): the Store, a map of *Poll       *)
(* guarded by a sync.RWMutex, and the Broadcaster, a registry of buffered  *)
(* channels guarded by its own sync.RWMutex.  Goroutines are the Threads;  *)
(* every method is split at its lock operations and at the memory writes   *)
(* that another goroutine can observe.  Pointers are heap addresses, so    *)
(* that aliasing between the store, its callers and snapshots is visible.  *)
(***************************************************************************)
EXTENDS Integers, Sequences, FiniteSets, TLC

(* ------------------------------ bounds -------------------------------- *)
\* channels made by Subscribe
MaxChans == 2
\* Broadcast calls
MaxCalls == 2
\* goroutines calling into the Store / the Broadcaster
NumThreads == 2
\* the clock runs from 1 to MaxTime
MaxTime == 2
\* successful votes counted per stored option before callers stop voting
MaxVotes == 2

Threads == 1..NumThreads
PollIDs == {"p1", "p2"}
OptionIDs == {"a", "b"}
\* the option identifiers of the polls callers build
OptionTemplates == {<<"a", "b">>, <<"b">>}
\* the payloads callers broadcast
Payloads == {"x", "y"}
\* make(chan string, 10)
ChanCap == 10
\* the identifiers generateID returns
GenIDs == {"p2"}
\* the value a caller writes into a record it holds (main_test.go:332)
MutateValue == 100

Nil == 0
\* Each goroutine allocates from its own span of addresses, wide enough for
\* every record it can have live at once: the ones it built that are stored,
\* the one it holds, and the snapshots of one List.
SpanSize == 2 * Cardinality(PollIDs) + 1
Span(t) == ((t - 1) * SpanSize + 1)..(t * SpanSize)
\* the addresses of the records stored initially lie after every span
Addrs == 1..(NumThreads * SpanSize + Cardinality(PollIDs))
InitAddr(n) == NumThreads * SpanSize + n

ErrNone == "none"
ErrPollNotFound == "poll not found"
ErrPollExpired == "poll has expired"
ErrOptionNotFound == "option not found"

VARIABLES
  now,          \* time.Now()
  heap,         \* address -> Poll struct (Options holds the address of its array)
  arrs,         \* address -> backing array of a []Option
  polls,        \* Store.polls: poll id -> address of the stored *Poll
  smu,          \* Store.mu: [w |-> writer or Nil, r |-> set of readers]
  pc,           \* per goroutine: <<operation, step>>
  arg,          \* per goroutine: the arguments of the running call
  loc,          \* per goroutine: locals of Store.Vote (poll, index, loaded count)
  ret,          \* per goroutine: what the last call returned
  mine,         \* per goroutine: the *Poll it built and passed to Create
  okVotes,      \* history: successful Vote calls returned, per poll id and option id
  base,         \* history: the counters stored initially, per poll id and option id
  subscribers,  \* Broadcaster.subscribers: key -> set of channels
  bmu,          \* Broadcaster.mu
  chans,        \* the channels made so far: [open, buf], in the order they were made
  recvd,        \* per channel: the messages its listener has received, in order
  calls,        \* history: the Broadcast calls in the order they were called
  bloc,         \* per goroutine: locals of Broadcast (its call, the channels still to visit)
  req           \* per goroutine: the HTTP handler it runs and the handler's locals

\* what the Store's methods and their callers work on, and the Broadcaster's
storeVars == <<now, heap, arrs, polls, smu, loc, mine, okVotes, base>>
notifVars == <<subscribers, bmu, chans, recvd, calls, bloc>>
vars == <<now, heap, arrs, polls, smu, pc, arg, loc, ret, mine, okVotes, base,
          subscribers, bmu, chans, recvd, calls, bloc, req>>

(* ------------------------------ helpers ------------------------------- *)
Range(s) == {s[i] : i \in DOMAIN s}

Ext(f, k, v) == [x \in DOMAIN f \cup {k} |-> IF x = k THEN v ELSE f[x]]

Idle == <<"idle", "idle">>
NoArg == [id |-> "", opt |-> "", ch |-> Nil, data |-> ""]
NoLoc == [p |-> Nil, i |-> 0, v |-> 0]
NoBLoc == [call |-> 0, todo |-> {}, full |-> {}]
\* no handler: the goroutine calls the Store and the Broadcaster directly
NoReq == [op |-> "none", at |-> "", id |-> "", opt |-> "", ch |-> Nil, done |-> FALSE, n |-> 0]
NoRet == [snaps |-> <<>>, ok |-> FALSE, err |-> ErrNone, ch |-> Nil]
MuFree == [w |-> Nil, r |-> {}]
ZeroVotes == [k \in PollIDs \X OptionIDs |-> 0]

\* The addresses a goroutine or the store still refers to; the rest is garbage.
Roots(ps, mn, rt, lc) ==
  ({ps[id] : id \in DOMAIN ps}
     \cup {mn[t] : t \in Threads}
     \cup UNION {Range(rt[t].snaps) : t \in Threads}
     \cup {lc[t].p : t \in Threads}) \ {Nil}

SweepHeap(h, live) == [a \in DOMAIN h \cap live |-> h[a]]

SweepArrs(ar, h) == [b \in DOMAIN ar \cap {h[a].Options : a \in DOMAIN h} |-> ar[b]]

\* &Poll{} / make([]Option, n) in goroutine t: the lowest free address of its span
NewAddr(h, ar, t) ==
  CHOOSE a \in Span(t) \ (DOMAIN h \cup DOMAIN ar) :
    \A b \in Span(t) \ (DOMAIN h \cup DOMAIN ar) : a <= b

(* ---------------------------- record model ---------------------------- *)
\* Poll.IsExpired: a zero ExpiresAt never expires
IsExpired(p, t) == IF p.ExpiresAt = 0 THEN FALSE ELSE t > p.ExpiresAt

\* the first index whose option has the id, 0 when there is none
FindOption(opts, optionID) ==
  IF \E i \in DOMAIN opts : opts[i].ID = optionID
  THEN CHOOSE i \in DOMAIN opts :
         /\ opts[i].ID = optionID
         /\ \A j \in DOMAIN opts : opts[j].ID = optionID => i <= j
  ELSE 0

copyPollShallow(h, ar, p, na) ==
  [heap |-> Ext(h, na, h[p]), arrs |-> ar, ptr |-> na]

\* copyPoll: a new array (at na) with the options copied, and a new Poll (at na)
\* pointing at it
copyPoll(h, ar, p, na) ==
  [heap |-> Ext(h, na, [h[p] EXCEPT !.Options = na]),
   arrs |-> Ext(ar, na, ar[h[p].Options]),
   ptr |-> na]

\* the record behind a pointer, with its option array read through
Deref(h, ar, a) ==
  [ID |-> h[a].ID, Question |-> h[a].Question, Options |-> ar[h[a].Options],
   CreatedAt |-> h[a].CreatedAt, ExpiresAt |-> h[a].ExpiresAt]

\* what the store holds: poll id -> record
StoredView == [id \in DOMAIN polls |-> Deref(heap, arrs, polls[id])]

(* ------------------------------ RWMutex ------------------------------- *)
CanLockAlways(mu) == TRUE

\* sync.RWMutex.Lock proceeds when there is no writer and no reader
CanLock(mu) == mu.w = Nil /\ mu.r = {}

\* sync.RWMutex.Lock with readers inside: the writer is announced, which keeps
\* new readers out, and waits for the readers to leave
MustDrain(mu) == mu.w = Nil /\ mu.r # {}

CanRLockAlways(mu) == TRUE

\* sync.RWMutex.RLock proceeds when there is no writer, inside or announced
CanRLock(mu) == mu.w = Nil

(* ------------------------------ Store --------------------------------- *)
ReleaseNever(mu, t) == mu

\* the deferred s.mu.Unlock() / s.mu.RUnlock()
Release(mu, t) == [w |-> IF mu.w = t THEN Nil ELSE mu.w, r |-> mu.r \ {t}]

\* s.mu.Lock() of Create, Vote and Delete
StoreLock(t) ==
  /\ pc[t][1] \in {"Create", "Vote", "Delete"}
  /\ pc[t][2] = "lock"
  /\ \/ CanLock(smu) /\ pc' = [pc EXCEPT ![t] = <<pc[t][1], "body">>]
     \/ MustDrain(smu) /\ pc' = [pc EXCEPT ![t] = <<pc[t][1], "drain">>]
  /\ smu' = [smu EXCEPT !.w = t]
  /\ UNCHANGED <<now, heap, arrs, polls, arg, loc, ret, mine, okVotes, base>>
  /\ UNCHANGED notifVars
  /\ UNCHANGED req

\* the last reader has left: the announced writer of either lock goes on
Drain(t) ==
  /\ pc[t][2] = "drain"
  /\ IF pc[t][1] \in {"Subscribe", "Unsubscribe"}
     THEN bmu.w = t /\ bmu.r = {}
     ELSE smu.w = t /\ smu.r = {}
  /\ pc' = [pc EXCEPT ![t] = <<pc[t][1], "body">>]
  /\ UNCHANGED <<arg, ret>>
  /\ UNCHANGED storeVars
  /\ UNCHANGED notifVars
  /\ UNCHANGED req

\* s.mu.RLock() of Get and List
StoreRLock(t) ==
  /\ pc[t][1] \in {"Get", "List"}
  /\ pc[t][2] = "lock"
  /\ CanRLock(smu)
  /\ smu' = [smu EXCEPT !.r = @ \cup {t}]
  /\ pc' = [pc EXCEPT ![t] = <<pc[t][1], "body">>]
  /\ UNCHANGED <<now, heap, arrs, polls, arg, loc, ret, mine, okVotes, base>>
  /\ UNCHANGED notifVars
  /\ UNCHANGED req

\* A goroutine that holds no Poll it built builds one and calls Store.Create
\* with it.
CreateCallStep(t, ids, tmpls, exps) ==
  /\ pc[t] = Idle
  /\ mine[t] = Nil
  /\ \E id \in ids, tmpl \in tmpls, exp \in exps :
       LET rt == [ret EXCEPT ![t] = NoRet]
           mn == [mine EXCEPT ![t] = Nil]
           h0 == SweepHeap(heap, Roots(polls, mn, rt, loc))
           a0 == SweepArrs(arrs, h0)
           na == NewAddr(h0, a0, t)
       IN /\ heap' = Ext(h0, na, [ID |-> id, Question |-> t, Options |-> na,
                                  CreatedAt |-> 0, ExpiresAt |-> exp])
          /\ arrs' = Ext(a0, na, [i \in DOMAIN tmpl |->
                                   [ID |-> tmpl[i], Text |-> t, Votes |-> 0]])
          /\ mine' = [mine EXCEPT ![t] = na]
          /\ ret' = rt
  /\ pc' = [pc EXCEPT ![t] = <<"Create", "lock">>]
  /\ UNCHANGED <<now, polls, smu, arg, loc, okVotes, base>>
  /\ UNCHANGED notifVars

\* a caller that runs no handler and keeps the pointer after Create
CreateCall(t, ids, tmpls, exps) ==
  /\ req[t].op = "none"
  /\ CreateCallStep(t, ids, tmpls, exps)
  /\ UNCHANGED req

AssignIDAlways(id, gen) == gen

\* if poll.ID == "" { poll.ID = generateID() }
AssignID(id, gen) == IF id = "" THEN gen ELSE id

\* Store.Create from after Lock to the return; gen is what generateID returns
CreateBody(t) ==
  /\ pc[t] = <<"Create", "body">>
  /\ \E gen \in GenIDs :
       LET a == mine[t]
           id == AssignID(heap[a].ID, gen)
           h1 == [heap EXCEPT ![a].ID = id, ![a].CreatedAt = now]
           ps == Ext(polls, id, a)
           h2 == SweepHeap(h1, Roots(ps, mine, ret, loc))
       IN /\ heap' = h2
          /\ arrs' = SweepArrs(arrs, h2)
          /\ polls' = ps
  /\ ret' = [ret EXCEPT ![t] = [NoRet EXCEPT !.ok = TRUE]]
  /\ smu' = Release(smu, t)
  /\ pc' = [pc EXCEPT ![t] = Idle]
  /\ UNCHANGED <<now, arg, loc, mine, okVotes, base>>
  /\ UNCHANGED notifVars
  /\ UNCHANGED req

\* the caller drops what the last call returned and starts the next call
StartCallStep(t, op, a) ==
  /\ pc[t] = Idle
  /\ LET rt == [ret EXCEPT ![t] = NoRet]
         h0 == SweepHeap(heap, Roots(polls, mine, rt, loc))
     IN /\ heap' = h0
        /\ arrs' = SweepArrs(arrs, h0)
        /\ ret' = rt
  /\ arg' = [arg EXCEPT ![t] = a]
  /\ pc' = [pc EXCEPT ![t] = <<op, "lock">>]
  /\ UNCHANGED <<now, polls, smu, loc, mine, okVotes, base>>
  /\ UNCHANGED notifVars

\* a call made by a goroutine that runs no handler
StartCall(t, op, a) ==
  /\ req[t].op = "none"
  /\ StartCallStep(t, op, a)
  /\ UNCHANGED req

GetCall(t, ids) == \E id \in ids : StartCall(t, "Get", [NoArg EXCEPT !.id = id])

\* Store.Get from after RLock to the return; keep: the caller holds on to the
\* result (a caller that does not, as in TestConcurrentVotes, drops it at once)
GetBody(t, keep) ==
  /\ pc[t] = <<"Get", "body">>
  /\ LET id == arg[t].id
         c == copyPoll(heap, arrs, polls[id], NewAddr(heap, arrs, t))
     IN IF id \in DOMAIN polls
        THEN /\ ret' = [ret EXCEPT ![t] = IF keep THEN [NoRet EXCEPT !.snaps = <<c.ptr>>,
                                                                       !.ok = TRUE]
                                           ELSE NoRet]
             /\ heap' = IF keep THEN c.heap ELSE heap
             /\ arrs' = IF keep THEN c.arrs ELSE arrs
        ELSE /\ ret' = [ret EXCEPT ![t] = NoRet]
             /\ UNCHANGED <<heap, arrs>>
  /\ smu' = Release(smu, t)
  /\ arg' = [arg EXCEPT ![t] = IF keep THEN @ ELSE NoArg]
  /\ pc' = [pc EXCEPT ![t] = Idle]
  /\ UNCHANGED <<now, polls, loc, mine, okVotes, base>>
  /\ UNCHANGED notifVars
  /\ UNCHANGED req

\* callers stop voting on an option whose counter has grown past MaxVotes
BelowCap(id, opt) ==
  id \in DOMAIN polls =>
    \A o \in Range(arrs[heap[polls[id]].Options]) :
      o.ID = opt => (o.Votes % MutateValue) <= MaxVotes

VoteCall(t, ids, opts) ==
  \E id \in ids, opt \in opts :
    /\ BelowCap(id, opt)
    /\ StartCall(t, "Vote", [NoArg EXCEPT !.id = id, !.opt = opt])

VoteCheckOptionFirst(exists, p, opts, optionID, t) ==
  IF ~exists THEN ErrPollNotFound
  ELSE IF FindOption(opts, optionID) = 0 THEN ErrOptionNotFound
  ELSE IF IsExpired(p, t) THEN ErrPollExpired
  ELSE ErrNone

\* the order in which Store.Vote rejects a call
VoteCheck(exists, p, opts, optionID, t) ==
  IF ~exists THEN ErrPollNotFound
  ELSE IF IsExpired(p, t) THEN ErrPollExpired
  ELSE IF FindOption(opts, optionID) = 0 THEN ErrOptionNotFound
  ELSE ErrNone

\* Store.Vote from after Lock to an error return, or to the load of Votes++
VoteFindIncFirst(t) ==
  /\ pc[t] = <<"Vote", "body">>
  /\ LET id == arg[t].id
         exists == id \in DOMAIN polls
         p == IF exists THEN heap[polls[id]] ELSE <<>>
         opts == IF exists THEN arrs[p.Options] ELSE <<>>
         err == VoteCheck(exists, p, opts, arg[t].opt, now)
         i == FindOption(opts, arg[t].opt)
     IN IF err # ErrNone
        THEN /\ ret' = [ret EXCEPT ![t] = [NoRet EXCEPT !.err = err]]
             /\ smu' = Release(smu, t)
             /\ pc' = [pc EXCEPT ![t] = Idle]
             /\ arrs' = IF i # 0 THEN [arrs EXCEPT ![p.Options][i].Votes = @ + 1] ELSE arrs
             /\ UNCHANGED loc
        ELSE /\ loc' = [loc EXCEPT ![t] = [p |-> polls[id], i |-> i, v |-> opts[i].Votes]]
             /\ pc' = [pc EXCEPT ![t] = <<"Vote", "inc">>]
             /\ UNCHANGED <<ret, smu, arrs>>
  /\ UNCHANGED <<now, heap, polls, arg, mine, okVotes, base>>
  /\ UNCHANGED notifVars
  /\ UNCHANGED req

VoteFind(t) ==
  /\ pc[t] = <<"Vote", "body">>
  /\ LET id == arg[t].id
         exists == id \in DOMAIN polls
         p == IF exists THEN heap[polls[id]] ELSE <<>>
         opts == IF exists THEN arrs[p.Options] ELSE <<>>
         err == VoteCheck(exists, p, opts, arg[t].opt, now)
         i == FindOption(opts, arg[t].opt)
     IN IF err # ErrNone
        THEN /\ ret' = [ret EXCEPT ![t] = [NoRet EXCEPT !.err = err]]
             /\ smu' = Release(smu, t)
             /\ pc' = [pc EXCEPT ![t] = Idle]
             /\ UNCHANGED loc
        ELSE /\ loc' = [loc EXCEPT ![t] = [p |-> polls[id], i |-> i, v |-> opts[i].Votes]]
             /\ pc' = [pc EXCEPT ![t] = <<"Vote", "inc">>]
             /\ UNCHANGED <<ret, smu>>
  /\ UNCHANGED <<now, heap, arrs, polls, arg, mine, okVotes, base>>
  /\ UNCHANGED notifVars
  /\ UNCHANGED req

IncrementTwice(v) == v + 2

\* poll.Options[i].Votes++
Increment(v) == v + 1

\* the store of Votes++, copyPoll and the return
VoteInc(t, keep) ==
  /\ pc[t] = <<"Vote", "inc">>
  /\ LET p == loc[t].p
         a1 == [arrs EXCEPT ![heap[p].Options][loc[t].i].Votes = Increment(loc[t].v)]
         c == copyPoll(heap, a1, p, NewAddr(heap, a1, t))
         lc == [loc EXCEPT ![t] = NoLoc]
         rt == [ret EXCEPT ![t] = IF keep THEN [NoRet EXCEPT !.snaps = <<c.ptr>>,
                                                               !.ok = TRUE]
                                   ELSE NoRet]
         h2 == SweepHeap(IF keep THEN c.heap ELSE heap, Roots(polls, mine, rt, lc))
     IN /\ heap' = h2
        /\ arrs' = SweepArrs(IF keep THEN c.arrs ELSE a1, h2)
        /\ loc' = lc
        /\ ret' = rt
  /\ okVotes' = IF DOMAIN base # {}
                THEN [okVotes EXCEPT ![<<arg[t].id, arg[t].opt>>] = @ + 1]
                ELSE okVotes
  /\ smu' = Release(smu, t)
  /\ arg' = [arg EXCEPT ![t] = IF keep THEN @ ELSE NoArg]
  /\ pc' = [pc EXCEPT ![t] = Idle]
  /\ UNCHANGED <<now, polls, mine, base>>
  /\ UNCHANGED notifVars
  /\ UNCHANGED req

DeleteCall(t, ids) == \E id \in ids : StartCall(t, "Delete", [NoArg EXCEPT !.id = id])

RemoveNothing(ps, id) == ps

\* delete(s.polls, id)
Remove(ps, id) == [x \in DOMAIN ps \ {id} |-> ps[x]]

\* Store.Delete from after Lock to the return
DeleteBody(t) ==
  /\ pc[t] = <<"Delete", "body">>
  /\ LET id == arg[t].id
         exists == id \in DOMAIN polls
         ps == IF exists THEN Remove(polls, id) ELSE polls
         h2 == SweepHeap(heap, Roots(ps, mine, ret, loc))
     IN /\ polls' = ps
        /\ heap' = h2
        /\ arrs' = SweepArrs(arrs, h2)
        /\ ret' = [ret EXCEPT ![t] = [NoRet EXCEPT !.ok = exists]]
  /\ smu' = Release(smu, t)
  /\ pc' = [pc EXCEPT ![t] = Idle]
  /\ UNCHANGED <<now, arg, loc, mine, okVotes, base>>
  /\ UNCHANGED notifVars
  /\ UNCHANGED req

ListCall(t) == StartCall(t, "List", NoArg)

\* copyPoll of each pointer of ps in turn: [heap, arrs, ptrs]
RECURSIVE CopyAll(_, _, _, _)
CopyAll(h, ar, ps, t) ==
  IF ps = <<>> THEN [heap |-> h, arrs |-> ar, ptrs |-> <<>>]
  ELSE LET c == copyPoll(h, ar, Head(ps), NewAddr(h, ar, t))
           r == CopyAll(c.heap, c.arrs, Tail(ps), t)
       IN [heap |-> r.heap, arrs |-> r.arrs, ptrs |-> <<c.ptr>> \o r.ptrs]

SortedOrdersOldestFirst(h, ps) ==
  {o \in [1..Cardinality(DOMAIN ps) -> DOMAIN ps] :
     /\ \A i, j \in DOMAIN o : i # j => o[i] # o[j]
     /\ \A i, j \in DOMAIN o : i < j => ~(h[ps[o[j]]].CreatedAt < h[ps[o[i]]].CreatedAt)}

\* the orders sort.Slice can leave the polls in: no poll before a newer one
SortedOrders(h, ps) ==
  {o \in [1..Cardinality(DOMAIN ps) -> DOMAIN ps] :
     /\ \A i, j \in DOMAIN o : i # j => o[i] # o[j]
     /\ \A i, j \in DOMAIN o : i < j => ~(h[ps[o[j]]].CreatedAt > h[ps[o[i]]].CreatedAt)}

\* Store.List from after RLock to the return; keep: the caller holds on to the
\* result (a caller that does not drops it at once)
ListBody(t, keep) ==
  /\ pc[t] = <<"List", "body">>
  /\ IF keep
     THEN \E o \in SortedOrders(heap, polls) :
            LET r == CopyAll(heap, arrs, [i \in DOMAIN o |-> polls[o[i]]], t)
            IN /\ heap' = r.heap
               /\ arrs' = r.arrs
               /\ ret' = [ret EXCEPT ![t] = [NoRet EXCEPT !.snaps = r.ptrs, !.ok = TRUE]]
     ELSE /\ ret' = [ret EXCEPT ![t] = NoRet]
          /\ UNCHANGED <<heap, arrs>>
  /\ smu' = Release(smu, t)
  /\ pc' = [pc EXCEPT ![t] = Idle]
  /\ UNCHANGED <<now, polls, arg, loc, mine, okVotes, base>>
  /\ UNCHANGED notifVars
  /\ UNCHANGED req

\* Store.Get, the lookup: poll, exists := s.polls[id], and the return of nil
GetFind(t) ==
  /\ pc[t] = <<"Get", "body">>
  /\ IF arg[t].id \in DOMAIN polls
     THEN /\ loc' = [loc EXCEPT ![t] = [NoLoc EXCEPT !.p = polls[arg[t].id]]]
          /\ pc' = [pc EXCEPT ![t] = <<"Get", "copy">>]
          /\ UNCHANGED <<ret, smu>>
     ELSE /\ ret' = [ret EXCEPT ![t] = NoRet]
          /\ smu' = Release(smu, t)
          /\ pc' = [pc EXCEPT ![t] = Idle]
          /\ UNCHANGED loc
  /\ UNCHANGED <<now, heap, arrs, polls, arg, mine, okVotes, base>>
  /\ UNCHANGED notifVars
  /\ UNCHANGED req

\* Store.Get, return copyPoll(poll), true
GetCopy(t) ==
  /\ pc[t] = <<"Get", "copy">>
  /\ LET c == copyPoll(heap, arrs, loc[t].p, NewAddr(heap, arrs, t))
         lc == [loc EXCEPT ![t] = NoLoc]
         rt == [ret EXCEPT ![t] = [NoRet EXCEPT !.snaps = <<c.ptr>>, !.ok = TRUE]]
         h2 == SweepHeap(c.heap, Roots(polls, mine, rt, lc))
     IN /\ heap' = h2
        /\ arrs' = SweepArrs(c.arrs, h2)
        /\ loc' = lc
        /\ ret' = rt
  /\ smu' = Release(smu, t)
  /\ pc' = [pc EXCEPT ![t] = Idle]
  /\ UNCHANGED <<now, polls, arg, mine, okVotes, base>>
  /\ UNCHANGED notifVars
  /\ UNCHANGED req

\* the ids of the polls Store.List has appended to its result so far
Copied(t) == {heap[ret[t].snaps[k]].ID : k \in DOMAIN ret[t].snaps}

\* Store.List, one round of the loop over s.polls (in the map's order, which
\* is any): polls = append(polls, copyPoll(p))
ListCopy(t) ==
  /\ pc[t] = <<"List", "body">>
  /\ \E id \in DOMAIN polls \ Copied(t) :
       LET c == copyPoll(heap, arrs, polls[id], NewAddr(heap, arrs, t))
       IN /\ heap' = c.heap
          /\ arrs' = c.arrs
          /\ ret' = [ret EXCEPT ![t].snaps = Append(@, c.ptr)]
  /\ UNCHANGED <<now, polls, smu, pc, arg, loc, mine, okVotes, base>>
  /\ UNCHANGED notifVars
  /\ UNCHANGED req

\* Store.List after the loop: sort.Slice of the copies and the return
ListSort(t) ==
  /\ pc[t] = <<"List", "body">>
  /\ DOMAIN polls \subseteq Copied(t)
  /\ LET cp == [id \in Copied(t) |->
                  CHOOSE a \in Range(ret[t].snaps) : heap[a].ID = id]
     IN \E o \in SortedOrders(heap, cp) :
          ret' = [ret EXCEPT ![t] = [NoRet EXCEPT !.snaps = [i \in DOMAIN o |-> cp[o[i]]],
                                                  !.ok = TRUE]]
  /\ smu' = Release(smu, t)
  /\ pc' = [pc EXCEPT ![t] = Idle]
  /\ UNCHANGED <<now, heap, arrs, polls, arg, loc, mine, okVotes, base>>
  /\ UNCHANGED notifVars
  /\ UNCHANGED req

\* After Create has returned, its caller writes a counter of the Poll it passed.
MutateArg(t) ==
  /\ pc[t] = Idle
  /\ mine[t] # Nil
  /\ arrs[heap[mine[t]].Options][1].Votes # MutateValue
  /\ arrs' = [arrs EXCEPT ![heap[mine[t]].Options][1].Votes = MutateValue]
  /\ UNCHANGED <<now, heap, polls, smu, pc, arg, loc, ret, mine, okVotes, base>>
  /\ UNCHANGED notifVars
  /\ UNCHANGED req

\* A caller writes a counter of a snapshot that Get, List or Vote returned to it.
MutateSnap(t) ==
  /\ pc[t] = Idle
  /\ \E k \in DOMAIN ret[t].snaps :
       LET a == heap[ret[t].snaps[k]].Options
       IN /\ arrs[a][1].Votes # MutateValue
          /\ arrs' = [arrs EXCEPT ![a][1].Votes = MutateValue]
  /\ UNCHANGED <<now, heap, polls, smu, pc, arg, loc, ret, mine, okVotes, base>>
  /\ UNCHANGED notifVars
  /\ UNCHANGED req

TickWraps ==
  /\ now' = IF now < MaxTime THEN now + 1 ELSE 1
  /\ UNCHANGED <<heap, arrs, polls, smu, pc, arg, loc, ret, mine, okVotes, base>>
  /\ UNCHANGED notifVars
  /\ UNCHANGED req

\* time passes
Tick ==
  /\ now < MaxTime
  /\ now' = now + 1
  /\ UNCHANGED <<heap, arrs, polls, smu, pc, arg, loc, ret, mine, okVotes, base>>
  /\ UNCHANGED notifVars
  /\ UNCHANGED req

(* ---------------------------- Broadcaster ------------------------------ *)
SubsOfAnyKey(key) == UNION Range(subscribers)

\* the listeners registered under a key (a missing key has none)
Subs(key) == IF key \in DOMAIN subscribers THEN subscribers[key] ELSE {}

\* the call of Subscribe(key), up to b.mu.Lock()
SubscribeLockStep(t, key) ==
  /\ pc[t] = Idle
  /\ Len(chans) < MaxChans
  /\ \/ CanLock(bmu) /\ pc' = [pc EXCEPT ![t] = <<"Subscribe", "body">>]
     \/ MustDrain(bmu) /\ pc' = [pc EXCEPT ![t] = <<"Subscribe", "drain">>]
  /\ bmu' = [bmu EXCEPT !.w = t]
  /\ arg' = [arg EXCEPT ![t] = [NoArg EXCEPT !.id = key]]
  /\ UNCHANGED <<ret, subscribers, chans, recvd, calls, bloc>>
  /\ UNCHANGED storeVars

\* A caller calls Subscribe with some key.
SubscribeLock(t) ==
  /\ req[t].op = "none"
  /\ \E key \in PollIDs : SubscribeLockStep(t, key)
  /\ UNCHANGED req

\* Broadcaster.Subscribe from after Lock to the return; the channel returned is
\* the one made last
SubscribeBodyStep(t) ==
  /\ pc[t] = <<"Subscribe", "body">>
  /\ LET ch == Len(chans) + 1
     IN /\ chans' = Append(chans, [open |-> TRUE, buf |-> <<>>])
        /\ recvd' = Append(recvd, <<>>)
        /\ subscribers' = Ext(subscribers, arg[t].id, Subs(arg[t].id) \cup {ch})
  /\ arg' = [arg EXCEPT ![t] = NoArg]
  /\ bmu' = Release(bmu, t)
  /\ pc' = [pc EXCEPT ![t] = Idle]
  /\ UNCHANGED <<ret, calls, bloc>>
  /\ UNCHANGED storeVars

\* Subscribe returns to a caller that hands the channel to its listener
SubscribeBody(t) ==
  /\ req[t].op = "none"
  /\ SubscribeBodyStep(t)
  /\ UNCHANGED req

\* the call of Unsubscribe(key, ch), up to b.mu.Lock()
UnsubscribeLockStep(t, key, ch) ==
  /\ pc[t] = Idle
  /\ \/ CanLock(bmu) /\ pc' = [pc EXCEPT ![t] = <<"Unsubscribe", "body">>]
     \/ MustDrain(bmu) /\ pc' = [pc EXCEPT ![t] = <<"Unsubscribe", "drain">>]
  /\ bmu' = [bmu EXCEPT !.w = t]
  /\ arg' = [arg EXCEPT ![t] = [NoArg EXCEPT !.id = key, !.ch = ch]]
  /\ UNCHANGED <<ret, subscribers, chans, recvd, calls, bloc>>
  /\ UNCHANGED storeVars

\* A caller calls Unsubscribe with some key and some channel made earlier.
UnsubscribeLock(t) ==
  /\ req[t].op = "none"
  /\ \E key \in PollIDs, ch \in DOMAIN chans : UnsubscribeLockStep(t, key, ch)
  /\ UNCHANGED req

\* A caller unsubscribes a channel with the key it was subscribed under, and
\* no channel is unsubscribed twice (as the deferred call of EventsHandler does).
UnsubscribeOwn(t) ==
  /\ req[t].op = "none"
  /\ \E key \in DOMAIN subscribers, ch \in DOMAIN chans :
       /\ ch \in subscribers[key]
       /\ \A u \in Threads : ~(pc[u][1] = "Unsubscribe" /\ arg[u].ch = ch)
       /\ UnsubscribeLockStep(t, key, ch)
  /\ UNCHANGED req

UnregisterNothing(subs, ch) == subs

\* delete(subs, ch)
Unregister(subs, ch) == subs \ {ch}

DropEmptyKey(m, key, subs) ==
  IF subs = {} THEN [k \in DOMAIN m \ {key} |-> m[k]] ELSE [m EXCEPT ![key] = subs]

\* the registry after delete(subs, ch): subs is the map held under key, which
\* stays in the registry whatever is left in it
KeepKey(m, key, subs) == [m EXCEPT ![key] = subs]

\* Broadcaster.Unsubscribe from after Lock to the return, or to the panic of
\* close on a closed channel (the deferred Unlock runs in both cases)
UnsubscribeBody(t) ==
  /\ pc[t] = <<"Unsubscribe", "body">>
  /\ LET key == arg[t].id
         ch == arg[t].ch
     IN IF key \in DOMAIN subscribers
        THEN /\ subscribers' = KeepKey(subscribers, key, Unregister(subscribers[key], ch))
             /\ chans' = [chans EXCEPT ![ch].open = FALSE]
             /\ pc' = [pc EXCEPT ![t] = IF chans[ch].open THEN Idle
                                        ELSE <<"panic", "close of closed channel">>]
        ELSE /\ pc' = [pc EXCEPT ![t] = Idle]
             /\ UNCHANGED <<subscribers, chans>>
  /\ arg' = [arg EXCEPT ![t] = NoArg]
  /\ bmu' = Release(bmu, t)
  /\ UNCHANGED <<ret, recvd, calls, bloc>>
  /\ UNCHANGED storeVars
  /\ UNCHANGED req

BroadcastCallStep(t, key, data) ==
  /\ pc[t] = Idle
  /\ Len(calls) < MaxCalls
  /\ arg' = [arg EXCEPT ![t] = [NoArg EXCEPT !.id = key, !.data = data]]
  /\ calls' = Append(calls, [before |-> {c \in DOMAIN calls : calls[c].returned},
                             returned |-> FALSE])
  /\ bloc' = [bloc EXCEPT ![t] = [NoBLoc EXCEPT !.call = Len(calls) + 1]]
  /\ pc' = [pc EXCEPT ![t] = <<"Broadcast", "lock">>]
  /\ UNCHANGED <<ret, subscribers, bmu, chans, recvd>>
  /\ UNCHANGED storeVars

\* A caller calls Broadcast with some key and some payload.
BroadcastCall(t) ==
  /\ req[t].op = "none"
  /\ \E key \in PollIDs, data \in Payloads : BroadcastCallStep(t, key, data)
  /\ UNCHANGED req

\* b.mu.RLock() of Broadcast and the lookup of the key's listeners
BroadcastRLock(t) ==
  /\ pc[t] = <<"Broadcast", "lock">>
  /\ CanRLock(bmu)
  /\ bmu' = [bmu EXCEPT !.r = @ \cup {t}]
  /\ bloc' = [bloc EXCEPT ![t].todo = Subs(arg[t].id)]
  /\ pc' = [pc EXCEPT ![t] = <<"Broadcast", "send">>]
  /\ UNCHANGED <<arg, ret, subscribers, chans, recvd, calls>>
  /\ UNCHANGED storeVars
  /\ UNCHANGED req

SelectWaits(c) == ~c.open \/ Len(c.buf) < ChanCap

\* a select with a default case never waits for its channel
SelectReady(c) == TRUE

EnqueueFirst(buf, m) == <<m>> \o buf

EnqueueNothing(buf, m) == buf

\* ch <- data on a channel with room
Enqueue(buf, m) == Append(buf, m)

HasRoomAlways(c) == TRUE

\* case ch <- data can proceed: the buffer of make(chan string, 10) is not full
HasRoom(c) == Len(c.buf) < ChanCap

AfterFullReturn(todo, ch) == {}

\* default: the loop goes on with the listeners not yet visited
AfterFull(todo, ch) == todo \ {ch}

\* one iteration of the loop of Broadcast: the select on one listener, which
\* panics when the channel is closed (the deferred RUnlock runs)
BroadcastSend(t) ==
  /\ pc[t] = <<"Broadcast", "send">>
  /\ \E ch \in bloc[t].todo :
       /\ SelectReady(chans[ch])
       /\ IF ~chans[ch].open
          THEN /\ pc' = [pc EXCEPT ![t] = <<"panic", "send on closed channel">>]
               /\ bmu' = Release(bmu, t)
               /\ bloc' = [bloc EXCEPT ![t] = NoBLoc]
               /\ arg' = [arg EXCEPT ![t] = NoArg]
               /\ UNCHANGED chans
          ELSE IF HasRoom(chans[ch])
          THEN /\ chans' = [chans EXCEPT ![ch].buf =
                              Enqueue(@, [data |-> arg[t].data, call |-> bloc[t].call])]
               /\ bloc' = [bloc EXCEPT ![t].todo = @ \ {ch}]
               /\ UNCHANGED <<pc, arg, bmu>>
          ELSE /\ bloc' = [bloc EXCEPT ![t].todo = AfterFull(@, ch),
                                       ![t].full = @ \cup {ch}]
               /\ UNCHANGED <<pc, arg, bmu, chans>>
  /\ UNCHANGED <<ret, subscribers, recvd, calls>>
  /\ UNCHANGED storeVars
  /\ UNCHANGED req

\* the end of the loop, the deferred RUnlock and the return
BroadcastReturn(t) ==
  /\ pc[t] = <<"Broadcast", "send">>
  /\ bloc[t].todo = {}
  /\ calls' = [calls EXCEPT ![bloc[t].call].returned = TRUE]
  /\ bloc' = [bloc EXCEPT ![t] = NoBLoc]
  /\ arg' = [arg EXCEPT ![t] = NoArg]
  /\ bmu' = Release(bmu, t)
  /\ pc' = [pc EXCEPT ![t] = Idle]
  /\ UNCHANGED <<ret, subscribers, chans, recvd>>
  /\ UNCHANGED storeVars
  /\ UNCHANGED req

\* msg := <-ch in the listener of a channel
Recv(ch) ==
  /\ chans[ch].buf # <<>>
  /\ recvd' = [recvd EXCEPT ![ch] = Append(@, Head(chans[ch].buf))]
  /\ chans' = [chans EXCEPT ![ch].buf = Tail(@)]
  /\ UNCHANGED <<pc, arg, ret, subscribers, bmu, calls, bloc>>
  /\ UNCHANGED storeVars
  /\ UNCHANGED req

(* ------------------------------ handlers ------------------------------ *)
\* the handlers of kind op that have reached one of the places in ats
Running(op, ats) == {u \in Threads : req[u].op = op /\ req[u].at \in ats}

\* json.Marshal of a *Poll: the fields in the order of their json tags, "null"
\* for a nil pointer
Marshal(hp, ar, p) ==
  IF p = Nil THEN "null"
  ELSE <<hp[p].ID, hp[p].Question,
         [i \in DOMAIN ar[hp[p].Options] |->
            <<ar[hp[p].Options][i].ID, ar[hp[p].Options][i].Text, ar[hp[p].Options][i].Votes>>],
         hp[p].CreatedAt, hp[p].ExpiresAt>>

\* the *Poll the last Store call of t returned (nil when it returned none)
Returned(t) == IF ret[t].snaps = <<>> THEN Nil ELSE ret[t].snaps[1]

\* A request arrives at VoteHandler: the method check and the check of the
\* "option" form value.  Every request that can reach Broadcast has a call left.
VoteStart(t, methods, ids, opts) ==
  /\ req[t].op = "none"
  /\ pc[t] = Idle
  /\ Len(calls) + Cardinality(Running("Vote", {"checked", "vote"})) < MaxCalls
  /\ \E method \in methods, id \in ids, opt \in opts :
       req' = [req EXCEPT ![t] = [NoReq EXCEPT !.op = "Vote", !.id = id, !.opt = opt,
                 !.at = IF method # "POST" THEN "405"
                        ELSE IF opt = "" THEN "400" ELSE "checked"]]
  /\ UNCHANGED <<pc, arg, ret>>
  /\ UNCHANGED storeVars
  /\ UNCHANGED notifVars

\* http.Error(...); return  of the two checks
VoteReject(t) ==
  /\ req[t].op = "Vote"
  /\ req[t].at \in {"405", "400"}
  /\ req' = [req EXCEPT ![t] = NoReq]
  /\ UNCHANGED <<pc, arg, ret>>
  /\ UNCHANGED storeVars
  /\ UNCHANGED notifVars

\* poll, err := app.store.Vote(pollID, optionID)
VoteStore(t) ==
  /\ req[t].op = "Vote"
  /\ req[t].at = "checked"
  /\ StartCallStep(t, "Vote", [NoArg EXCEPT !.id = req[t].id, !.opt = req[t].opt])
  /\ req' = [req EXCEPT ![t].at = "vote"]

ShouldBroadcastAlways(err) == TRUE

\* if err != nil { http.Error(...); return }
ShouldBroadcast(err) == err = ErrNone

\* Vote returned an error: the handler answers 400 and returns
VoteFailed(t) ==
  /\ req[t].op = "Vote"
  /\ req[t].at = "vote"
  /\ pc[t] = Idle
  /\ ~ShouldBroadcast(ret[t].err)
  /\ req' = [req EXCEPT ![t] = NoReq]
  /\ UNCHANGED <<pc, arg, ret>>
  /\ UNCHANGED storeVars
  /\ UNCHANGED notifVars

\* data, _ := json.Marshal(poll); app.broadcaster.Broadcast(pollID, string(data))
VoteBroadcast(t) ==
  /\ req[t].op = "Vote"
  /\ req[t].at = "vote"
  /\ pc[t] = Idle
  /\ ShouldBroadcast(ret[t].err)
  /\ BroadcastCallStep(t, req[t].id, Marshal(heap, arrs, Returned(t)))
  /\ req' = [req EXCEPT ![t].at = "bcast", ![t].n = @ + 1]

\* Broadcast returned: the response (JSON or redirect) and the return
VoteRespond(t) ==
  /\ req[t].op = "Vote"
  /\ req[t].at = "bcast"
  /\ pc[t] = Idle
  /\ req' = [req EXCEPT ![t] = NoReq]
  /\ UNCHANGED <<pc, arg, ret>>
  /\ UNCHANGED storeVars
  /\ UNCHANGED notifVars

\* A request arrives at EventsHandler, which calls app.store.Get(pollID).  Every
\* request that can reach Subscribe has a channel left.
EventsStart(t, ids) ==
  /\ req[t].op = "none"
  /\ Len(chans) + Cardinality(Running("Events", {"get", "sub"})) < MaxChans
  /\ \E id \in ids :
       /\ StartCallStep(t, "Get", [NoArg EXCEPT !.id = id])
       /\ req' = [req EXCEPT ![t] = [NoReq EXCEPT !.op = "Events", !.id = id, !.at = "get"]]

\* the request's context is cancelled (disconnect, timeout, shutdown)
Cancel(t) ==
  /\ req[t].op = "Events"
  /\ ~req[t].done
  /\ req' = [req EXCEPT ![t].done = TRUE]
  /\ UNCHANGED <<pc, arg, ret>>
  /\ UNCHANGED storeVars
  /\ UNCHANGED notifVars

\* if _, exists := app.store.Get(pollID); !exists { http.Error(...); return }
EventsNotFound(t) ==
  /\ req[t].op = "Events"
  /\ req[t].at = "get"
  /\ pc[t] = Idle
  /\ ~ret[t].ok
  /\ req' = [req EXCEPT ![t] = NoReq]
  /\ UNCHANGED <<pc, arg, ret>>
  /\ UNCHANGED storeVars
  /\ UNCHANGED notifVars

\* ch := app.broadcaster.Subscribe(pollID), up to b.mu.Lock()
EventsSubscribe(t) ==
  /\ req[t].op = "Events"
  /\ req[t].at = "get"
  /\ ret[t].ok
  /\ SubscribeLockStep(t, req[t].id)
  /\ req' = [req EXCEPT ![t].at = "sub"]

\* Subscribe returns ch; defer app.broadcaster.Unsubscribe(pollID, ch)
EventsSubscribed(t) ==
  /\ req[t].op = "Events"
  /\ req[t].at = "sub"
  /\ SubscribeBodyStep(t)
  /\ req' = [req EXCEPT ![t].ch = Len(chans) + 1, ![t].at = "flusher"]

\* flusher, ok := w.(http.Flusher); if !ok { http.Error(...); return }
EventsNoFlusher(t) ==
  /\ req[t].op = "Events"
  /\ req[t].at = "flusher"
  /\ pc[t] = Idle
  /\ req' = [req EXCEPT ![t].at = "defer"]
  /\ UNCHANGED <<pc, arg, ret>>
  /\ UNCHANGED storeVars
  /\ UNCHANGED notifVars

\* the writer can flush: poll, _ := app.store.Get(pollID)
EventsFlusher(t) ==
  /\ req[t].op = "Events"
  /\ req[t].at = "flusher"
  /\ StartCallStep(t, "Get", [NoArg EXCEPT !.id = req[t].id])
  /\ req' = [req EXCEPT ![t].at = "first"]

\* the first event (the snapshot of the second Get) is written and flushed
EventsFirst(t) ==
  /\ req[t].op = "Events"
  /\ req[t].at = "first"
  /\ pc[t] = Idle
  /\ req' = [req EXCEPT ![t].at = "loop"]
  /\ UNCHANGED <<pc, arg, ret>>
  /\ UNCHANGED storeVars
  /\ UNCHANGED notifVars

\* case msg := <-ch: the message is written and flushed
EventsRecv(t) ==
  /\ req[t].op = "Events"
  /\ req[t].at = "loop"
  /\ Recv(req[t].ch)

\* case <-r.Context().Done(): return
EventsDone(t) ==
  /\ req[t].op = "Events"
  /\ req[t].at = "loop"
  /\ req[t].done
  /\ req' = [req EXCEPT ![t].at = "defer"]
  /\ UNCHANGED <<pc, arg, ret>>
  /\ UNCHANGED storeVars
  /\ UNCHANGED notifVars

\* the deferred app.broadcaster.Unsubscribe(pollID, ch), up to b.mu.Lock()
EventsUnsubscribe(t) ==
  /\ req[t].op = "Events"
  /\ req[t].at = "defer"
  /\ UnsubscribeLockStep(t, req[t].id, req[t].ch)
  /\ req' = [req EXCEPT ![t].at = "unsub"]

\* the deferred Unsubscribe has returned: the handler is over
EventsReturn(t) ==
  /\ req[t].op = "Events"
  /\ req[t].at = "unsub"
  /\ pc[t] = Idle
  /\ req' = [req EXCEPT ![t] = NoReq]
  /\ UNCHANGED <<pc, arg, ret>>
  /\ UNCHANGED storeVars
  /\ UNCHANGED notifVars

(* --------------------------- specifications --------------------------- *)
InitThreads ==
  /\ smu = MuFree
  /\ pc = [t \in Threads |-> Idle]
  /\ arg = [t \in Threads |-> NoArg]
  /\ loc = [t \in Threads |-> NoLoc]
  /\ ret = [t \in Threads |-> NoRet]
  /\ mine = [t \in Threads |-> Nil]
  /\ okVotes = ZeroVotes
  /\ bmu = MuFree
  /\ calls = <<>>
  /\ bloc = [t \in Threads |-> NoBLoc]
  /\ req = [t \in Threads |-> NoReq]

\* NewBroadcaster(): no key, no channel
InitNoSubscribers ==
  /\ subscribers = <<>>
  /\ chans = <<>>
  /\ recvd = <<>>

\* the Poll stored at InitAddr(n), created at time 1, and its options
MkPoll(id, exp, n) ==
  [ID |-> id, Question |-> n, Options |-> InitAddr(n), CreatedAt |-> 1, ExpiresAt |-> exp]

MkOptions(tmpl, c0, n) == [i \in DOMAIN tmpl |-> [ID |-> tmpl[i], Text |-> n, Votes |-> c0]]

\* The store after Create of p1 has returned and one vote was cast on each of
\* its options; p2 is not stored.
InitVote ==
  /\ InitThreads
  /\ InitNoSubscribers
  /\ now = 1
  /\ \E tmpl \in OptionTemplates, exp \in 0..1, c0 \in {1} :
       /\ heap = [a \in {InitAddr(1)} |-> MkPoll("p1", exp, 1)]
       /\ arrs = [a \in {InitAddr(1)} |-> MkOptions(tmpl, c0, 1)]
       /\ polls = [id \in {"p1"} |-> InitAddr(1)]
       /\ base = [k \in PollIDs \X OptionIDs |->
                    IF k[1] = "p1" /\ k[2] \in Range(tmpl) THEN c0 ELSE 0]

NextVote ==
  \/ Tick
  \/ \E t \in Threads :
       \/ VoteCall(t, PollIDs, OptionIDs)
       \/ StoreLock(t)
       \/ Drain(t)
       \/ VoteFind(t)
       \/ VoteInc(t, FALSE)
       \/ GetCall(t, PollIDs)
       \/ StoreRLock(t)
       \/ GetBody(t, FALSE)

SpecVote == InitVote /\ [][NextVote]_vars

\* The store after Create of p1 and of p2 have returned, with one vote on each
\* option.
InitSnap ==
  /\ InitThreads
  /\ InitNoSubscribers
  /\ now = 1
  /\ heap = [a \in {InitAddr(1), InitAddr(2)} |->
               IF a = InitAddr(1) THEN MkPoll("p1", 0, 1) ELSE MkPoll("p2", 0, 2)]
  /\ arrs = [a \in {InitAddr(1), InitAddr(2)} |->
               MkOptions(<<"a", "b">>, 1, a - NumThreads * SpanSize)]
  /\ polls = [id \in PollIDs |-> IF id = "p1" THEN InitAddr(1) ELSE InitAddr(2)]
  /\ base = <<>>

\* Callers that read and vote, hold on to the snapshots and write to them.
NextSnap ==
  \E t \in Threads :
    \/ GetCall(t, {"p1"})
    \/ StoreRLock(t)
    \/ Drain(t)
    \/ GetBody(t, TRUE)
    \/ VoteCall(t, {"p1"}, {"a"})
    \/ StoreLock(t)
    \/ VoteFind(t)
    \/ VoteInc(t, TRUE)
    \/ ListCall(t)
    \/ ListBody(t, TRUE)
    \/ MutateSnap(t)

SpecSnap == InitSnap /\ [][NextSnap]_vars

\* NewStore(): nothing stored
InitNoPolls ==
  /\ now = 1
  /\ heap = <<>>
  /\ arrs = <<>>
  /\ polls = <<>>
  /\ base = <<>>

InitStore ==
  /\ InitThreads
  /\ InitNoSubscribers
  /\ InitNoPolls

\* Callers that create a poll, write to the record they passed to Create, and
\* read.
NextStore ==
  \E t \in Threads :
    \/ CreateCall(t, {"p1", ""}, {<<"a", "b">>}, {0})
    \/ StoreLock(t)
    \/ Drain(t)
    \/ CreateBody(t)
    \/ MutateArg(t)
    \/ GetCall(t, PollIDs)
    \/ StoreRLock(t)
    \/ GetBody(t, TRUE)

SpecStore == InitStore /\ [][NextStore]_vars

\* the option identifiers of the polls callers build, the same identifier
\* twice included (Create accepts any Poll)
LifeTemplates == {<<"a", "b">>, <<"a", "a">>}

\* Callers that create polls with or without an identifier, vote and read,
\* while time passes.
NextLife ==
  \/ Tick
  \/ \E t \in Threads :
       \/ CreateCall(t, {"p1", ""}, LifeTemplates, {0})
       \/ StoreLock(t)
       \/ Drain(t)
       \/ CreateBody(t)
       \/ VoteCall(t, {"p1"}, {"a"})
       \/ VoteFind(t)
       \/ VoteInc(t, FALSE)
       \/ GetCall(t, {"p1"})
       \/ StoreRLock(t)
       \/ GetBody(t, TRUE)

SpecLife == InitStore /\ [][NextLife]_vars

\* The store after Create of p1, which expires when time 1 has passed, and of
\* p2, which never expires, with one vote on each option.
InitDelete ==
  /\ InitThreads
  /\ InitNoSubscribers
  /\ now = 1
  /\ heap = [a \in {InitAddr(1), InitAddr(2)} |->
               IF a = InitAddr(1) THEN MkPoll("p1", 1, 1) ELSE MkPoll("p2", 0, 2)]
  /\ arrs = [a \in {InitAddr(1), InitAddr(2)} |->
               MkOptions(<<"a", "b">>, 1, a - NumThreads * SpanSize)]
  /\ polls = [id \in PollIDs |-> IF id = "p1" THEN InitAddr(1) ELSE InitAddr(2)]
  /\ base = <<>>

\* Callers that delete, read, list and vote, while time passes.
NextDelete ==
  \/ Tick
  \/ \E t \in Threads :
       \/ DeleteCall(t, PollIDs)
       \/ StoreLock(t)
       \/ Drain(t)
       \/ DeleteBody(t)
       \/ GetCall(t, PollIDs)
       \/ StoreRLock(t)
       \/ GetBody(t, TRUE)
       \/ ListCall(t)
       \/ ListBody(t, TRUE)
       \/ VoteCall(t, PollIDs, {"a"})
       \/ VoteFind(t)
       \/ VoteInc(t, FALSE)

SpecDelete == InitDelete /\ [][NextDelete]_vars

\* Callers that create polls at different times and list them.
NextList ==
  \/ Tick
  \/ \E t \in Threads :
       \/ CreateCall(t, {"p1", ""}, {<<"a", "b">>}, {0})
       \/ StoreLock(t)
       \/ Drain(t)
       \/ CreateBody(t)
       \/ ListCall(t)
       \/ StoreRLock(t)
       \/ ListBody(t, TRUE)

SpecList == InitStore /\ [][NextList]_vars

InitNotifier ==
  /\ InitThreads
  /\ InitNoPolls
  /\ InitNoSubscribers

NextNotifier ==
  \E t \in Threads :
    \/ SubscribeLock(t)
    \/ Drain(t)
    \/ SubscribeBody(t)
    \/ UnsubscribeLock(t)
    \/ UnsubscribeBody(t)
    \/ BroadcastCall(t)
    \/ BroadcastRLock(t)
    \/ BroadcastSend(t)
    \/ BroadcastReturn(t)

SpecNotifier == InitNotifier /\ [][NextNotifier]_vars

\* Callers that subscribe, broadcast, and unsubscribe each channel once with
\* its own key.
NextOwn ==
  \E t \in Threads :
    \/ SubscribeLock(t)
    \/ Drain(t)
    \/ SubscribeBody(t)
    \/ UnsubscribeOwn(t)
    \/ UnsubscribeBody(t)
    \/ BroadcastCall(t)
    \/ BroadcastRLock(t)
    \/ BroadcastSend(t)
    \/ BroadcastReturn(t)

SpecOwn == InitNotifier /\ [][NextOwn]_vars

\* the payload of the Broadcast calls made before the initial state
Preloaded == [data |-> "x", call |-> 0]

\* The Broadcaster after Subscribe("p1") has returned channel 1 and ChanCap
\* Broadcast("p1", "x") calls have returned, with no message received yet.
InitFull ==
  /\ InitThreads
  /\ InitNoPolls
  /\ subscribers = [k \in {"p1"} |-> {1}]
  /\ chans = <<[open |-> TRUE, buf |-> [i \in 1..ChanCap |-> Preloaded]]>>
  /\ recvd = <<<<>>>>

NextFull ==
  \/ \E ch \in DOMAIN chans : Recv(ch)
  \/ \E t \in Threads :
       \/ SubscribeLock(t)
       \/ Drain(t)
       \/ SubscribeBody(t)
       \/ BroadcastCall(t)
       \/ BroadcastRLock(t)
       \/ BroadcastSend(t)
       \/ BroadcastReturn(t)

SpecFull == InitFull /\ [][NextFull]_vars

\* Every goroutine inside a method keeps running, and a goroutine waiting in
\* RLock gets the lock if it is free again and again; nothing makes a listener
\* receive, and nothing makes a caller start a call.
FairFull ==
  \A t \in Threads :
    /\ WF_vars(SubscribeBody(t))
    /\ WF_vars(Drain(t))
    /\ SF_vars(BroadcastRLock(t))
    /\ WF_vars(BroadcastSend(t))
    /\ WF_vars(BroadcastReturn(t))

SpecFullFair == SpecFull /\ FairFull

\* The application serving requests: p1 is stored with options a and b, p2 is
\* not; no listener yet.
InitApp ==
  /\ InitThreads
  /\ InitNoSubscribers
  /\ now = 1
  /\ heap = [a \in {InitAddr(1)} |-> MkPoll("p1", 0, 1)]
  /\ arrs = [a \in {InitAddr(1)} |-> MkOptions(<<"a", "b">>, 0, 1)]
  /\ polls = [id \in {"p1"} |-> InitAddr(1)]
  /\ base = <<>>

\* Each goroutine serves one request after the other with VoteHandler or
\* EventsHandler.
NextApp ==
  \E t \in Threads :
    \/ VoteStart(t, {"POST", "GET"}, PollIDs, {"", "a"})
    \/ VoteReject(t)
    \/ VoteStore(t)
    \/ StoreLock(t)
    \/ Drain(t)
    \/ VoteFind(t)
    \/ VoteInc(t, TRUE)
    \/ VoteFailed(t)
    \/ VoteBroadcast(t)
    \/ BroadcastRLock(t)
    \/ BroadcastSend(t)
    \/ BroadcastReturn(t)
    \/ VoteRespond(t)
    \/ EventsStart(t, PollIDs)
    \/ Cancel(t)
    \/ StoreRLock(t)
    \/ GetBody(t, TRUE)
    \/ EventsNotFound(t)
    \/ EventsSubscribe(t)
    \/ EventsSubscribed(t)
    \/ EventsNoFlusher(t)
    \/ EventsFlusher(t)
    \/ EventsFirst(t)
    \/ EventsRecv(t)
    \/ EventsDone(t)
    \/ EventsUnsubscribe(t)
    \/ UnsubscribeBody(t)
    \/ EventsReturn(t)

SpecApp == InitApp /\ [][NextApp]_vars

\* the vote requests, the events requests and the Create calls of NextAll
MaxServed == 1

\* The handlers serving vote and events requests for p1 next to goroutines that
\* call Create and Delete for p2 and List.
NextAll ==
  \E t \in Threads :
    \/ Len(calls) < MaxServed /\ VoteStart(t, {"POST"}, {"p1"}, {"a"})
    \/ VoteStore(t)
    \/ StoreLock(t)
    \/ Drain(t)
    \/ VoteFind(t)
    \/ VoteInc(t, TRUE)
    \/ VoteBroadcast(t)
    \/ BroadcastRLock(t)
    \/ BroadcastSend(t)
    \/ BroadcastReturn(t)
    \/ VoteRespond(t)
    \/ Len(chans) < MaxServed /\ EventsStart(t, {"p1"})
    \/ Cancel(t)
    \/ StoreRLock(t)
    \/ GetBody(t, TRUE)
    \/ EventsSubscribe(t)
    \/ EventsSubscribed(t)
    \/ EventsNoFlusher(t)
    \/ EventsFlusher(t)
    \/ EventsFirst(t)
    \/ EventsRecv(t)
    \/ EventsDone(t)
    \/ EventsUnsubscribe(t)
    \/ UnsubscribeBody(t)
    \/ EventsReturn(t)
    \/ /\ Cardinality({u \in Threads : mine[u] # Nil}) < MaxServed
       /\ CreateCall(t, {"p2"}, {<<"a", "b">>}, {0})
    \/ CreateBody(t)
    \/ DeleteCall(t, {"p2"})
    \/ DeleteBody(t)
    \/ ListCall(t)
    \/ ListBody(t, FALSE)

SpecAll == InitApp /\ [][NextAll]_vars

\* Goroutines that serve requests with EventsHandler or call Broadcast.
NextEvents ==
  \E t \in Threads :
    \/ EventsStart(t, PollIDs)
    \/ Cancel(t)
    \/ StoreRLock(t)
    \/ Drain(t)
    \/ GetBody(t, TRUE)
    \/ EventsNotFound(t)
    \/ EventsSubscribe(t)
    \/ EventsSubscribed(t)
    \/ EventsNoFlusher(t)
    \/ EventsFlusher(t)
    \/ EventsFirst(t)
    \/ EventsRecv(t)
    \/ EventsDone(t)
    \/ EventsUnsubscribe(t)
    \/ UnsubscribeBody(t)
    \/ EventsReturn(t)
    \/ BroadcastCall(t)
    \/ BroadcastRLock(t)
    \/ BroadcastSend(t)
    \/ BroadcastReturn(t)

SpecEvents == InitApp /\ [][NextEvents]_vars

\* the steps of goroutine t that wait for nothing: the bodies of the calls and
\* the handlers' own statements (select takes the Done case when it is ready)
Steps(t) ==
  \/ VoteReject(t)
  \/ VoteStore(t)
  \/ VoteFind(t)
  \/ VoteInc(t, TRUE)
  \/ VoteFailed(t)
  \/ VoteBroadcast(t)
  \/ BroadcastSend(t)
  \/ BroadcastReturn(t)
  \/ VoteRespond(t)
  \/ GetBody(t, TRUE)
  \/ EventsNotFound(t)
  \/ EventsSubscribed(t)
  \/ EventsFlusher(t)
  \/ EventsFirst(t)
  \/ EventsDone(t)
  \/ UnsubscribeBody(t)
  \/ EventsReturn(t)
  \/ CreateBody(t)
  \/ DeleteBody(t)
  \/ ListBody(t, FALSE)

\* the steps of goroutine t that acquire a lock
Locks(t) ==
  \/ StoreLock(t)
  \/ Drain(t)
  \/ StoreRLock(t)
  \/ BroadcastRLock(t)
  \/ EventsSubscribe(t)
  \/ EventsUnsubscribe(t)

\* A goroutine that can take a step takes one, and a goroutine waiting for a
\* lock gets it if the lock is free again and again (sync.RWMutex starves
\* neither readers nor writers).  Nothing makes a request arrive, a client
\* disconnect or a message be read.
FairApp == \A t \in Threads : WF_vars(Steps(t)) /\ SF_vars(Locks(t))

SpecAppFair == SpecApp /\ FairApp

SpecEventsFair == SpecEvents /\ FairApp

SpecAllFair == SpecAll /\ FairApp

\* Callers of every operation of the store, with Get and List taken step by
\* step inside their critical sections.
NextAtomic ==
  \E t \in Threads :
    \/ GetCall(t, PollIDs)
    \/ StoreRLock(t)
    \/ GetFind(t)
    \/ GetCopy(t)
    \/ ListCall(t)
    \/ ListCopy(t)
    \/ ListSort(t)
    \/ VoteCall(t, {"p1"}, {"a"})
    \/ StoreLock(t)
    \/ Drain(t)
    \/ VoteFind(t)
    \/ VoteInc(t, FALSE)
    \/ DeleteCall(t, {"p2"})
    \/ DeleteBody(t)
    \/ CreateCall(t, {"p2"}, {<<"a", "b">>}, {0})
    \/ CreateBody(t)

SpecAtomic == InitSnap /\ [][NextAtomic]_vars

\* what VoteHandler broadcast after the k-th vote on option a of p1
SnapshotAfter(k) ==
  Marshal([a \in {InitAddr(1)} |-> MkPoll("p1", 0, 1)],
          [a \in {InitAddr(1)} |-> [MkOptions(<<"a", "b">>, 0, 1) EXCEPT ![1].Votes = k]],
          InitAddr(1))

\* The server after an EventsHandler has subscribed channel 1 to p1 and ChanCap
\* votes on option a were served one after the other, while the handler has
\* not taken anything from its channel yet.
InitListen ==
  /\ InitThreads
  /\ now = 1
  /\ heap = [a \in {InitAddr(1)} |-> MkPoll("p1", 0, 1)]
  /\ arrs = [a \in {InitAddr(1)} |->
               [MkOptions(<<"a", "b">>, 0, 1) EXCEPT ![1].Votes = ChanCap]]
  /\ polls = [id \in {"p1"} |-> InitAddr(1)]
  /\ base = <<>>
  /\ subscribers = [k \in {"p1"} |-> {1}]
  /\ chans = <<[open |-> TRUE,
                buf |-> [k \in 1..ChanCap |-> [data |-> SnapshotAfter(k), call |-> 0]]]>>
  /\ recvd = <<<<>>>>

\* Goroutines that serve vote requests on option a of p1 while the listener
\* takes payloads from its channel.
NextListen ==
  \/ Recv(1)
  \/ \E t \in Threads :
       \/ VoteStart(t, {"POST"}, {"p1"}, {"a"})
       \/ VoteStore(t)
       \/ StoreLock(t)
       \/ VoteFind(t)
       \/ VoteInc(t, TRUE)
       \/ VoteBroadcast(t)
       \/ BroadcastRLock(t)
       \/ BroadcastSend(t)
       \/ BroadcastReturn(t)
       \/ VoteRespond(t)

SpecListen == InitListen /\ [][NextListen]_vars

\* TestConcurrentVotes: p1 is stored with counters c0 and every goroutine has
\* already called Vote on p1 and is about to take the lock.
InitRace ==
  /\ InitNoSubscribers
  /\ now = 1
  /\ smu = MuFree
  /\ pc = [t \in Threads |-> <<"Vote", "lock">>]
  /\ arg \in [Threads -> {[NoArg EXCEPT !.id = "p1", !.opt = o] : o \in OptionIDs}]
  /\ loc = [t \in Threads |-> NoLoc]
  /\ ret = [t \in Threads |-> NoRet]
  /\ mine = [t \in Threads |-> Nil]
  /\ okVotes = ZeroVotes
  /\ bmu = MuFree
  /\ calls = <<>>
  /\ bloc = [t \in Threads |-> NoBLoc]
  /\ req = [t \in Threads |-> NoReq]
  /\ \E tmpl \in OptionTemplates, c0 \in 0..1 :
       /\ heap = [a \in {InitAddr(1)} |-> MkPoll("p1", 0, 1)]
       /\ arrs = [a \in {InitAddr(1)} |-> MkOptions(tmpl, c0, 1)]
       /\ polls = [id \in {"p1"} |-> InitAddr(1)]
       /\ base = [k \in PollIDs \X OptionIDs |->
                    IF k[1] = "p1" /\ k[2] \in Range(tmpl) THEN c0 ELSE 0]

\* Goroutines that vote on p1 and keep the snapshot Vote returned, and read it.
NextRace ==
  \E t \in Threads :
    \/ VoteCall(t, {"p1"}, OptionIDs)
    \/ StoreLock(t)
    \/ Drain(t)
    \/ VoteFind(t)
    \/ VoteInc(t, TRUE)
    \/ GetCall(t, {"p1"})
    \/ StoreRLock(t)
    \/ GetBody(t, FALSE)

SpecRace == InitRace /\ [][NextRace]_vars

(* ------------------------------- claims ------------------------------- *)
StoredOptions(id) == arrs[heap[polls[id]].Options]

\* C1: once no Vote call is running, every stored counter equals its initial
\* value plus the number of successful Vote calls on that option that returned,
\* whatever the interleaving of the Vote and Get calls was.
C1_NoLostUpdates ==
  (\A t \in Threads : pc[t][1] # "Vote") =>
    \A id \in DOMAIN polls : \A i \in DOMAIN StoredOptions(id) :
      LET k == <<id, StoredOptions(id)[i].ID>>
      IN StoredOptions(id)[i].Votes = base[k] + okVotes[k]

\* C1 witness: every call has returned and N = MaxVotes votes on one option succeeded
C1_Witness ==
  /\ \A t \in Threads : pc[t] = Idle
  /\ \E k \in PollIDs \X OptionIDs : okVotes[k] >= MaxVotes /\ k[1] \in DOMAIN polls

\* C2: the step of Vote that decides the outcome reports PollNotFound for an
\* id that is not stored, else PollExpired for a poll whose expiry is set and
\* past (whatever the option), else OptionNotFound for an option the poll does
\* not have, else goes on to the increment; a poll with no expiry is never
\* reported expired.
C2_VoteOutcomeOrder ==
  [][\A t \in Threads :
       (pc[t] = <<"Vote", "body">> /\ pc'[t] # pc[t]) =>
         LET id == arg[t].id
             exists == id \in DOMAIN polls
             expiry == IF exists THEN heap[polls[id]].ExpiresAt ELSE 0
             expired == expiry # 0 /\ now > expiry
             hasOpt == exists /\ \E o \in Range(StoredOptions(id)) : o.ID = arg[t].opt
             outcome == IF pc'[t] = <<"Vote", "inc">> THEN "success" ELSE ret'[t].err
         IN /\ ~exists => outcome = ErrPollNotFound
            /\ exists /\ expired => outcome = ErrPollExpired
            /\ exists /\ ~expired /\ ~hasOpt => outcome = ErrOptionNotFound
            /\ exists /\ ~expired /\ hasOpt => outcome = "success"
            /\ exists /\ expiry = 0 => outcome # ErrPollExpired]_vars

\* C2 witness: a Vote on an expired poll for an option the poll does not have
\* has returned PollExpired
C2_Witness ==
  \E t \in Threads :
    /\ pc[t] = Idle /\ ret[t].err = ErrPollExpired
    /\ arg[t].id \in DOMAIN polls
    /\ \A o \in Range(StoredOptions(arg[t].id)) : o.ID # arg[t].opt

\* C3: a step in which a Vote call returns an error changes neither the set of
\* stored polls nor any stored record.
C3_FailedVoteNoChange ==
  [][\A t \in Threads :
       (pc[t][1] = "Vote" /\ pc'[t] = Idle /\ ret'[t].err # ErrNone) =>
         StoredView' = StoredView]_vars

\* C3 witness: a Vote has returned OptionNotFound while the store holds a poll
\* with votes
C3_Witness ==
  \E t \in Threads :
    /\ pc[t] = Idle /\ ret[t].err = ErrOptionNotFound
    /\ \E o \in Range(StoredOptions(arg[t].id)) : o.Votes > 0

\* the snapshots goroutine u holds, read through
SnapView(u) == [k \in DOMAIN ret[u].snaps |-> Deref(heap, arrs, ret[u].snaps[k])]

\* C4: when a caller writes to a snapshot that Get, List or Vote returned to
\* it, no stored record changes, no snapshot held by another caller changes,
\* and of its own snapshots only the one written to changes.
C4_CopyIsolation ==
  [][\A t \in Threads :
       MutateSnap(t) =>
         /\ StoredView' = StoredView
         /\ \A u \in Threads \ {t} : SnapView(u)' = SnapView(u)
         /\ Cardinality({k \in DOMAIN ret[t].snaps : SnapView(t)'[k] # SnapView(t)[k]}) = 1]_vars

\* C4 witness: a caller has written to its snapshot of a poll while the stored
\* record and another caller's snapshot of the same poll keep their counter
C4_Witness ==
  \E t, u \in Threads : \E k \in DOMAIN ret[t].snaps, j \in DOMAIN ret[u].snaps :
    /\ t # u
    /\ SnapView(t)[k].Options[1].Votes = MutateValue
    /\ SnapView(u)[j].ID = SnapView(t)[k].ID
    /\ SnapView(u)[j].Options[1].Votes # MutateValue
    /\ StoredView[SnapView(t)[k].ID].Options[1].Votes # MutateValue

\* C5: after Create has returned, a write of the caller to the record it passed
\* in changes no stored record.
C5_CreateKeepsNoAlias ==
  [][\A t \in Threads : MutateArg(t) => StoredView' = StoredView]_vars

Registered(key, ch) == key \in DOMAIN subscribers /\ ch \in subscribers[key]

\* everything enqueued into a channel so far, received or not
History(ch) == recvd[ch] \o chans[ch].buf

Copies(ch, c) == {i \in DOMAIN History(ch) : History(ch)[i].call = c}

\* C6: When a Broadcast(key, payload) call returns, every listener registered
\* under key that the call did not find full holds the payload of this call
\* exactly once, and no other listener holds anything of this call; with no
\* listener under key the call changes no channel and no registration and
\* returns normally.
C6_BroadcastFanOut ==
  [][\A t \in Threads :
       /\ BroadcastReturn(t) =>
            \A ch \in DOMAIN chans :
              IF Registered(arg[t].id, ch) /\ ch \notin bloc[t].full
              THEN /\ Cardinality(Copies(ch, bloc[t].call)) = 1
                   /\ \A i \in Copies(ch, bloc[t].call) : History(ch)[i].data = arg[t].data
              ELSE Copies(ch, bloc[t].call) = {}
       /\ ( /\ pc[t] = <<"Broadcast", "send">>
            /\ ~ \E ch \in DOMAIN chans : Registered(arg[t].id, ch)
            /\ <<pc[t], bloc[t]>>' # <<pc[t], bloc[t]>> ) =>
            /\ pc'[t] = Idle
            /\ chans' = chans
            /\ subscribers' = subscribers
    ]_vars

\* a Broadcast is about to return after enqueuing its payload for two listeners
\* of its key, with no listener under the other key
C6_Witness ==
  \E t \in Threads :
    /\ pc[t] = <<"Broadcast", "send">>
    /\ bloc[t].todo = {}
    /\ \E c1, c2 \in DOMAIN chans :
         /\ c1 # c2
         /\ Registered(arg[t].id, c1) /\ Registered(arg[t].id, c2)
         /\ Copies(c1, bloc[t].call) # {} /\ Copies(c2, bloc[t].call) # {}

\* C7: The step of Broadcast that finds a listener full changes no channel, and
\* when a Broadcast that found some listener full returns, the full listeners
\* hold nothing of this call and every other listener of the key holds its
\* payload once.
C7_DropOnFullOnly ==
  [][\A t \in Threads :
       /\ (BroadcastSend(t) /\ bloc'[t].full # bloc[t].full) =>
            chans' = chans /\ recvd' = recvd
       /\ (BroadcastReturn(t) /\ bloc[t].full # {}) =>
            \A ch \in DOMAIN chans :
              /\ ch \in bloc[t].full => Copies(ch, bloc[t].call) = {}
              /\ (Registered(arg[t].id, ch) /\ ch \notin bloc[t].full) =>
                   Cardinality(Copies(ch, bloc[t].call)) = 1
    ]_vars

\* a Broadcast is about to return having found one listener full and having
\* enqueued its payload for another listener of the key
C7_Witness ==
  \E t \in Threads :
    /\ pc[t] = <<"Broadcast", "send">>
    /\ bloc[t].todo = {}
    /\ \E f \in bloc[t].full : Len(chans[f].buf) = ChanCap
    /\ \E ch \in DOMAIN chans \ bloc[t].full :
         Registered(arg[t].id, ch) /\ Copies(ch, bloc[t].call) # {}

\* C8: Under fair scheduling of the goroutines, with listeners that need
\* never receive, every Broadcast call that has started returns.
C8_BroadcastReturns ==
  \A t \in Threads : (pc[t][1] = "Broadcast") ~> (pc[t] = Idle)

\* a Broadcast call has returned although the listener of its key has a full
\* buffer and has received nothing
C8_Witness ==
  /\ \E c \in DOMAIN calls : calls[c].returned
  /\ recvd[1] = <<>>
  /\ Len(chans[1].buf) = ChanCap
  /\ \A ch \in DOMAIN chans : Len(chans[ch].buf) \in {0, ChanCap}
  /\ \A k \in DOMAIN subscribers : k = "p1"

\* C9: Unsubscribe(key, handle) with a handle not registered under key changes
\* no registration and no channel, and returns normally.
C9_UnknownHandleNoOp ==
  [][\A t \in Threads :
       (UnsubscribeBody(t) /\ ~Registered(arg[t].id, arg[t].ch)) =>
         /\ subscribers' = subscribers
         /\ chans' = chans
         /\ pc'[t] = Idle
    ]_vars

\* call a returned before call b was called; the calls made before the initial
\* state (call 0) returned before every other call
ReturnedBeforeCalled(a, b) ==
  IF b = 0 THEN FALSE ELSE IF a = 0 THEN TRUE ELSE a \in calls[b].before

\* C10 (as stated): a listener receives payloads in the order in which their
\* Broadcast calls were called.
C10_CallOrder ==
  \A ch \in DOMAIN recvd : \A i, j \in DOMAIN recvd[ch] :
    i < j => recvd[ch][i].call <= recvd[ch][j].call

\* C10 (amended): a listener never receives the payload of a Broadcast call
\* before the payload of a call that had returned before that call was called.
C10_ReturnOrder ==
  \A ch \in DOMAIN recvd : \A i, j \in DOMAIN recvd[ch] :
    i < j => ~ReturnedBeforeCalled(recvd[ch][j].call, recvd[ch][i].call)

\* a listener has received the payloads of two overlapping Broadcast calls, the
\* one called later first
C10_Witness ==
  \E ch \in DOMAIN recvd : \E i, j \in DOMAIN recvd[ch] :
    /\ i < j
    /\ recvd[ch][j].call > 0
    /\ recvd[ch][i].call > recvd[ch][j].call
    /\ recvd[ch][j].call \notin calls[recvd[ch][i].call].before

\* the counters of the options two versions of a stored record have in common
SameOptions(o1, o2) == {i \in DOMAIN o1 \cap DOMAIN o2 : o1[i].ID = o2[i].ID}

\* C11: No step lowers the counter of an option of a poll id that stays
\* stored.
C11_CountersNeverDecrease ==
  [][\A id \in DOMAIN polls \cap DOMAIN polls' :
       \A i \in SameOptions(StoredOptions(id), StoredOptions(id)') :
         StoredOptions(id)'[i].Votes >= StoredOptions(id)[i].Votes
    ]_vars

\* the option identifiers and texts of a record, in order
OptionNames(r) == [i \in DOMAIN r.Options |-> <<r.Options[i].ID, r.Options[i].Text>>]

\* C12: No step changes the question, the option identifiers and texts or the
\* creation timestamp of the record stored under an id that stays stored.
C12_ImmutableAfterCreate ==
  [][\A id \in DOMAIN polls \cap DOMAIN polls' :
       /\ StoredView'[id].Question = StoredView[id].Question
       /\ OptionNames(StoredView'[id]) = OptionNames(StoredView[id])
       /\ StoredView'[id].CreatedAt = StoredView[id].CreatedAt
    ]_vars

\* the snapshots a goroutine got from its last call
Snaps(t) == [k \in DOMAIN ret[t].snaps |-> Deref(heap, arrs, ret[t].snaps[k])]

\* C13: Delete of a stored id returns true and removes it, Delete of an id not
\* stored returns false and changes nothing, and in both cases every other
\* stored poll stays as it was; Get of an id not stored returns not-found, Vote
\* on it fails with "poll not found", and only Create stores an id again.
C13_Delete ==
  [][/\ \A t \in Threads :
          /\ DeleteBody(t) =>
               LET id == arg[t].id
               IN /\ id \in DOMAIN polls => ret'[t].ok /\ id \notin DOMAIN polls'
                  /\ id \notin DOMAIN polls => ~ret'[t].ok /\ polls' = polls
                  /\ \A other \in DOMAIN polls \ {id} :
                       other \in DOMAIN polls' /\ StoredView'[other] = StoredView[other]
          /\ (GetBody(t, TRUE) /\ arg[t].id \notin DOMAIN polls) =>
               ~ret'[t].ok /\ ret'[t].snaps = <<>>
          /\ (VoteFind(t) /\ arg[t].id \notin DOMAIN polls) =>
               pc'[t] = Idle /\ ret'[t].err = ErrPollNotFound
     /\ \A id \in DOMAIN polls' \ DOMAIN polls :
          \E t \in Threads : pc[t] = <<"Create", "body">> /\ pc'[t] = Idle
    ]_vars

\* a Vote has failed with "poll not found" on an id that Delete removed, while
\* the other poll is still stored
C13_Witness ==
  \E t \in Threads :
    /\ pc[t] = Idle
    /\ ret[t].err = ErrPollNotFound
    /\ arg[t].id \notin DOMAIN polls
    /\ DOMAIN polls # {}

\* C14: List returns one snapshot of each stored poll and nothing else, and no
\* snapshot comes after one with an earlier creation timestamp.
C14_ListNewestFirst ==
  [][\A t \in Threads :
       ListBody(t, TRUE) =>
         LET sn == Snaps(t)'
         IN /\ Len(sn) = Cardinality(DOMAIN polls)
            /\ {sn[k].ID : k \in DOMAIN sn} = DOMAIN polls
            /\ \A k \in DOMAIN sn : sn[k] = StoredView[sn[k].ID]
            /\ \A i, j \in DOMAIN sn : sn[i].CreatedAt > sn[j].CreatedAt => i < j
    ]_vars

\* a List has returned two polls created at different times
C14_Witness ==
  \E t \in Threads :
    /\ Len(ret[t].snaps) = 2
    /\ Snaps(t)[1].CreatedAt > Snaps(t)[2].CreatedAt

NoVoteInFlight(id) ==
  \A t \in Threads : ~(pc[t] = <<"Vote", "inc">> /\ loc[t].p = polls[id])

\* C19: An expired stored poll stays stored unless Delete removes it, stays
\* expired, is returned by Get and by List, and every Vote on it fails with
\* "poll has expired"; its record changes only by the increment of a Vote that
\* had passed the expiry check before the poll expired.  Vote fails with "poll
\* has expired" only on an expired poll with no such increment pending, so from
\* the first failure on the counters stay as they are.
C19_ExpiryOnlyBlocksVotes ==
  [][/\ \A id \in DOMAIN polls :
          IsExpired(heap[polls[id]], now) =>
            /\ id \notin DOMAIN polls' =>
                 \E t \in Threads : pc[t] = <<"Delete", "body">> /\ arg[t].id = id
                                       /\ pc'[t] = Idle
            /\ id \in DOMAIN polls' =>
                 /\ NoVoteInFlight(id) => StoredView'[id] = StoredView[id] /\ NoVoteInFlight(id)'
                 /\ IsExpired(heap'[polls'[id]], now')
            /\ \A t \in Threads :
                 /\ (VoteFind(t) /\ arg[t].id = id) =>
                      pc'[t] = Idle /\ ret'[t].err = ErrPollExpired
                 /\ (GetBody(t, TRUE) /\ arg[t].id = id) =>
                      ret'[t].ok /\ Snaps(t)' = <<StoredView[id]>>
                 /\ ListBody(t, TRUE) => \E k \in DOMAIN Snaps(t)' : Snaps(t)'[k] = StoredView[id]
     /\ \A t \in Threads :
          (VoteFind(t) /\ ret'[t].err = ErrPollExpired) =>
            IsExpired(heap[polls[arg[t].id]], now) /\ NoVoteInFlight(arg[t].id)
    ]_vars

\* a Vote has failed with "poll has expired" and another goroutine holds a
\* snapshot of the expired poll, which is still stored with its counters
C19_Witness ==
  \E t, u \in Threads :
    /\ pc[t] = Idle
    /\ ret[t].err = ErrPollExpired
    /\ arg[t].id \in DOMAIN polls
    /\ IsExpired(heap[polls[arg[t].id]], now)
    /\ \E k \in DOMAIN ret[u].snaps : Snaps(u)[k] = StoredView[arg[t].id]

\* C20: The option identifiers of every stored poll are pairwise distinct.
C20_OptionIDsDistinct ==
  \A id \in DOMAIN polls :
    \A i, j \in DOMAIN StoredOptions(id) :
      i # j => StoredOptions(id)[i].ID # StoredOptions(id)[j].ID

\* C16: an EventsHandler that registered a channel returns with the channel
\* unregistered and closed, on every exit path; a registered channel always
\* belongs to a running EventsHandler; and once the request is cancelled the
\* handler eventually returns.
C16_SubscriberCleanup ==
  /\ [][\A t \in Threads :
          (req[t].op = "Events" /\ req'[t].op = "none" /\ req[t].ch # Nil) =>
            /\ \A key \in DOMAIN subscribers' : ~Registered(key, req[t].ch)'
            /\ ~chans'[req[t].ch].open]_vars
  /\ [](\A key \in DOMAIN subscribers : \A ch \in DOMAIN chans :
          Registered(key, ch) =>
            \E t \in Threads : req[t].op = "Events" /\ req[t].ch = ch)
  /\ \A t \in Threads : (req[t].op = "Events" /\ req[t].done) ~> (req[t].op = "none")

\* C16 witness: the handler of a channel that delivered a message has returned
\* (after a cancellation), and the handler of another channel has returned too
C16_Witness ==
  /\ Len(chans) = 2
  /\ recvd[1] # <<>>
  /\ \A ch \in DOMAIN chans :
       /\ ~chans[ch].open
       /\ \A t \in Threads : req[t].ch # ch

\* C17: VoteHandler calls Broadcast only after its Vote call has returned
\* without error, once, for the poll of the request, with the serialised
\* snapshot that Vote returned and with the vote already in the store; a
\* handler whose Vote failed, or that rejected the request, returns having
\* called Broadcast zero times, any other having called it exactly once.
C17_BroadcastOncePerVote ==
  [][\A t \in Threads :
       /\ (pc[t] = Idle /\ pc'[t] = <<"Broadcast", "lock">>) =>
            /\ req[t].op = "Vote" /\ req[t].at = "vote"
            /\ req[t].n = 0 /\ req'[t].n = 1
            /\ ret[t].ok /\ ret[t].err = ErrNone /\ ret[t].snaps # <<>>
            /\ smu.w # t /\ t \notin smu.r
            /\ arg'[t].id = req[t].id
            /\ arg'[t].data = Marshal(heap, arrs, ret[t].snaps[1])
            /\ LET s == Deref(heap, arrs, ret[t].snaps[1])
                   i == FindOption(s.Options, req[t].opt)
               IN /\ s.ID = req[t].id
                  /\ i # 0
                  /\ s.Options[i].Votes >= 1
                  /\ StoredOptions(req[t].id)[i].Votes >= s.Options[i].Votes
       /\ (req[t].op = "Vote" /\ req'[t].op = "none") =>
            IF req[t].at = "bcast"
            THEN req[t].n = 1 /\ ret[t].err = ErrNone /\ pc[t] = Idle
            ELSE /\ req[t].n = 0
                 /\ req[t].at = "vote" => ret[t].err # ErrNone]_vars

\* C17 witness: the Broadcast call of a vote request has returned and a
\* listener's channel got the snapshot that Vote returned
C17_Witness ==
  \E t \in Threads :
    /\ req[t].op = "Vote" /\ req[t].at = "bcast" /\ pc[t] = Idle
    /\ \E ch \in DOMAIN chans : \E i \in DOMAIN History(ch) :
         History(ch)[i].data = Marshal(heap, arrs, ret[t].snaps[1])

\* t is inside mu, as the writer (not merely announced) or as a reader
Holds(mu, t) == (mu.w = t /\ pc[t][2] # "drain") \/ t \in mu.r

\* goroutine t has called a method and waits for its lock
Waits(t) ==
  \/ pc[t][2] \in {"lock", "drain"}
  \/ req[t].op = "Events" /\ req[t].at = "defer"
  \/ req[t].op = "Events" /\ req[t].at = "get" /\ pc[t] = Idle

\* C18: no goroutine holds the Store's lock and the Broadcaster's lock at the
\* same time, no goroutine that holds one of them waits for a lock, and every
\* goroutine that waits for a lock gets past the wait.
C18_NoDeadlock ==
  /\ [](\A t \in Threads :
          /\ ~(Holds(smu, t) /\ Holds(bmu, t))
          /\ (Holds(smu, t) \/ Holds(bmu, t)) => ~Waits(t))
  /\ \A t \in Threads : Waits(t) ~> ~Waits(t)

\* C18 witness: the Broadcast of a vote request waits for the Broadcaster's lock,
\* which the deferred Unsubscribe of an events request holds for writing
C18_Witness ==
  \E t, u \in Threads :
    /\ req[t].op = "Vote" /\ pc[t] = <<"Broadcast", "lock">>
    /\ req[u].op = "Events" /\ pc[u] = <<"Unsubscribe", "body">>
    /\ bmu.w = u

\* C23: the step of a successful Vote(pollID, optionID) adds exactly 1 to the
\* counter of the option found for optionID, leaves every other counter and
\* field of that poll, every other stored poll and the set of stored ids as
\* they were, and returns a snapshot equal to the stored poll after the step.
C23_VoteFrame ==
  [][\A t \in Threads :
       VoteInc(t, TRUE) =>
         LET id == arg[t].id
             old == StoredView[id]
             i == FindOption(old.Options, arg[t].opt)
         IN /\ i # 0
            /\ DOMAIN polls' = DOMAIN polls
            /\ \A x \in DOMAIN polls \ {id} : StoredView'[x] = StoredView[x]
            /\ StoredView'[id] =
                 [old EXCEPT !.Options = [old.Options EXCEPT ![i].Votes = @ + 1]]
            /\ Snaps(t)' = <<StoredView'[id]>>]_vars

\* C23 witness: a Vote on option a of p1 has returned the stored poll with the
\* counter of a at 3 (two votes after the first) while p2 is stored untouched
C23_Witness ==
  \E t \in Threads :
    /\ pc[t] = Idle /\ ret[t].ok /\ arg[t].opt = "a"
    /\ Snaps(t) = <<StoredView["p1"]>>
    /\ StoredView["p1"].Options[1].Votes = 3
    /\ StoredView["p1"].Options[2].Votes = 1
    /\ StoredView["p2"].Options[1].Votes = 1

\* the goroutines holding the snapshot of a successful Vote on option opt of id
Voted(id, opt) ==
  {t \in Threads : pc[t] = Idle /\ ret[t].ok /\ arg[t].id = id /\ arg[t].opt = opt}

\* the counter of option opt in the snapshot goroutine t holds
ReturnedCount(t, opt) ==
  LET o == Snaps(t)[1].Options IN o[FindOption(o, opt)].Votes

\* C28: the k-th Vote to succeed on an option that started at c returns c+k in
\* its snapshot, so the snapshots that goroutines hold from successful votes on
\* the same option show pairwise distinct counts within c+1..c+(number of
\* successes), and when N concurrent calls are all that succeeded the counts
\* are exactly c+1, ..., c+N.
C28_DistinctCounts ==
  /\ [][\A t \in Threads :
          VoteInc(t, TRUE) =>
            LET k == <<arg[t].id, arg[t].opt>>
            IN ReturnedCount(t, arg[t].opt)' = base[k] + okVotes'[k]]_vars
  /\ [](\A id \in DOMAIN polls, opt \in OptionIDs :
          LET k == <<id, opt>>
              got == {ReturnedCount(t, opt) : t \in Voted(id, opt)}
          IN /\ \A t, u \in Voted(id, opt) :
                  t # u => ReturnedCount(t, opt) # ReturnedCount(u, opt)
             /\ got \subseteq (base[k] + 1)..(base[k] + okVotes[k])
             /\ okVotes[k] = Cardinality(Voted(id, opt))
                  => got = (base[k] + 1)..(base[k] + okVotes[k]))

\* C28 witness: every goroutine's first call, made while the others' calls were
\* in progress, has succeeded on option b starting from 1, and the snapshots
\* held show 2 and 3
C28_Witness ==
  /\ Voted("p1", "b") = Threads
  /\ okVotes[<<"p1", "b">>] = NumThreads
  /\ base[<<"p1", "b">>] = 1
  /\ {ReturnedCount(t, "b") : t \in Threads} = 2..(1 + NumThreads)

\* goroutine t is inside the critical section of a write, of a read
InWrite(t) == pc[t][1] \in {"Create", "Vote", "Delete"} /\ pc[t][2] \in {"body", "inc"}
InRead(t) == pc[t][1] \in {"Get", "List"} /\ pc[t][2] \in {"body", "copy"}

\* C27: no Create, Vote or Delete is inside its critical section while a Get
\* or List is inside its own; a step taken while a Get or List is inside its
\* critical section leaves what the store holds unchanged; so Get returns the
\* copy of the poll stored under the id at its return (or nothing when the id
\* is not stored), and List returns the copies of exactly the polls stored at
\* its return.
C27_ReadsAtomic ==
  /\ [](\A t, u \in Threads : ~(InWrite(t) /\ InRead(u)))
  /\ [][(\E t \in Threads : InRead(t)) => StoredView' = StoredView]_vars
  /\ [][\A t \in Threads :
          /\ GetCopy(t) => /\ arg[t].id \in DOMAIN polls
                           /\ Snaps(t)' = <<StoredView[arg[t].id]>>
          /\ GetFind(t) /\ pc'[t] = Idle => /\ arg[t].id \notin DOMAIN polls
                                            /\ ~ret'[t].ok
          /\ ListSort(t) => /\ Len(Snaps(t)') = Cardinality(DOMAIN polls)
                            /\ Range(Snaps(t)') = Range(StoredView)]_vars

\* C27 witness: a Get and a List are inside their critical sections together,
\* the List half way through its copies, after a vote was counted on p1 and p2
\* was deleted and created again
C27_Witness ==
  \E t, u \in Threads :
    /\ pc[t] = <<"Get", "copy">>
    /\ pc[u] = <<"List", "body">> /\ Len(ret[u].snaps) = 1
    /\ StoredView["p1"].Options[1].Votes = 2
    /\ DOMAIN polls = PollIDs /\ polls["p2"] # InitAddr(2)

\* C24: Subscribe(key) returns a channel that did not exist before, open, with
\* an empty buffer, registered under key and under no other key, and leaves
\* every other channel and its registrations as they were; no channel ever
\* holds more than ChanCap (10) pending payloads.
C24_FreshBoundedChannel ==
  /\ [](\A ch \in DOMAIN chans : Len(chans[ch].buf) <= ChanCap)
  /\ [][\A t \in Threads :
          SubscribeBody(t) =>
            LET ch == Len(chans')
            IN /\ ch \notin DOMAIN chans
               /\ chans'[ch] = [open |-> TRUE, buf |-> <<>>]
               /\ \A key \in PollIDs : ch \in Subs(key)' <=> key = arg[t].id
               /\ \A c \in DOMAIN chans :
                    /\ chans'[c] = chans[c]
                    /\ \A key \in PollIDs : Registered(key, c)' <=> Registered(key, c)]_vars

\* C24 witness: a second Subscribe has returned channel 2, registered under p2
\* only and still empty, while channel 1, registered under p1, holds ChanCap
\* payloads and a Broadcast to p1 has found it full
C24_Witness ==
  /\ Len(chans) = 2
  /\ Registered("p2", 2) /\ ~Registered("p1", 2) /\ Registered("p1", 1)
  /\ chans[2].buf = <<>>
  /\ Len(chans[1].buf) = ChanCap
  /\ \E t \in Threads : 1 \in bloc[t].full

\* C29: no step removes a key from the registry of the Broadcaster; Unsubscribe
\* of a key in the registry takes the channel out of the key's set, changes no
\* other key's set and keeps the key, also when its set is left empty.
C29_KeysNeverShrink ==
  [][/\ DOMAIN subscribers \subseteq DOMAIN subscribers'
     /\ \A t \in Threads :
          UnsubscribeBody(t) /\ arg[t].id \in DOMAIN subscribers =>
            /\ DOMAIN subscribers' = DOMAIN subscribers
            /\ subscribers'[arg[t].id] = subscribers[arg[t].id] \ {arg[t].ch}
            /\ \A k \in DOMAIN subscribers \ {arg[t].id} :
                 subscribers'[k] = subscribers[k]]_vars

\* C29 witness: p1 is the only key ever subscribed to, every channel made for
\* it has been unsubscribed and closed, and p1 is still in the registry with an
\* empty set
C29_Witness ==
  /\ DOMAIN subscribers = {"p1"}
  /\ subscribers["p1"] = {}
  /\ Len(chans) = MaxChans
  /\ \A ch \in DOMAIN chans : ~chans[ch].open
  /\ \A t \in Threads : pc[t] = Idle

\* C25: when every channel is unsubscribed at most once and with its own key,
\* nothing is enqueued into a channel once its Unsubscribe has returned (which
\* is when it is closed), every send of a Broadcast is on an open channel, and
\* no goroutine panics.
C25_NoSendAfterUnsubscribe ==
  /\ [](\A t \in Threads : pc[t][1] # "panic")
  /\ [][\A ch \in DOMAIN chans : ~chans[ch].open => History(ch)' = History(ch)]_vars
  /\ [][\A t \in Threads :
          BroadcastSend(t) =>
            \A ch \in bloc[t].todo \ bloc'[t].todo : chans[ch].open]_vars

\* C25 witness: p1 is the only key in use; channel 1 received the first
\* Broadcast and was unsubscribed; the second Broadcast, which took the lock
\* after that, has returned with its payload in channel 2 and not in channel 1
C25_Witness ==
  /\ DOMAIN subscribers = {"p1"}
  /\ Len(chans) = 2 /\ Len(calls) = 2
  /\ ~chans[1].open /\ chans[2].open
  /\ Copies(1, 1) # {} /\ Copies(1, 2) = {}
  /\ Copies(2, 2) # {}
  /\ calls[2].returned

\* the counter of the first option (a) in a payload VoteHandler broadcast
VotesIn(data) == data[3][1][3]

\* the payloads of Broadcast calls of the run in the history of channel ch with
\* a higher count at an earlier place than a lower count
Inversions(ch) ==
  {ij \in (DOMAIN History(ch)) \X (DOMAIN History(ch)) :
     /\ ij[1] < ij[2]
     /\ History(ch)[ij[1]].call # 0 /\ History(ch)[ij[2]].call # 0
     /\ VotesIn(History(ch)[ij[1]].data) > VotesIn(History(ch)[ij[2]].data)}

\* C22: VoteHandler calls Broadcast when Store.Vote has returned and its lock
\* is released, with the snapshot of its own vote, which the store may already
\* have passed; so a listener can hold the snapshot of the later vote before
\* the snapshot of the earlier vote, and when it does, the Broadcast call of
\* the earlier vote had not returned when the call of the later vote was made.
C22_BroadcastAfterUnlock ==
  /\ [][\A t \in Threads :
          VoteBroadcast(t) =>
            /\ smu.w # t /\ t \notin smu.r
            /\ arg'[t].data = Marshal(heap, arrs, Returned(t))
            /\ VotesIn(arg'[t].data) <= StoredView[req[t].id].Options[1].Votes]_vars
  /\ [](\A ch \in DOMAIN chans : \A ij \in Inversions(ch) :
          History(ch)[ij[2]].call \notin calls[History(ch)[ij[1]].call].before)

\* C22 witness: two vote requests were served together from count ChanCap, and
\* the listener has received the snapshot with ChanCap + 2 before the snapshot
\* with ChanCap + 1
C22_Witness ==
  \E i, j \in DOMAIN recvd[1] :
    /\ i < j
    /\ VotesIn(recvd[1][i].data) = ChanCap + 2
    /\ VotesIn(recvd[1][j].data) = ChanCap + 1

\* C21: when a Broadcast has found a listener's buffer full and nothing has
\* been enqueued for that listener since that call began, the payload that is
\* enqueued next carries a count at least as high as the snapshot that was
\* dropped.
C21_NextEnqueuedIsNewer ==
  [][\A t, u \in Threads : \A ch \in DOMAIN chans :
       /\ BroadcastSend(t)
       /\ chans'[ch].buf # chans[ch].buf
       /\ ch \in bloc[u].full
       /\ \A i \in DOMAIN History(ch) :
            History(ch)[i].call \in calls[bloc[u].call].before \cup {0}
       => VotesIn(arg[t].data) >= VotesIn(arg[u].data)]_vars

\* EventsHandler e holds a subscribed channel and has not reached its deferred
\* Unsubscribe; it has read the snapshot it sends first
Watching(e) == req[e].op = "Events" /\ req[e].at \in {"flusher", "first", "loop"}
InitialRead(e) ==
  /\ req[e].op = "Events"
  /\ (req[e].at = "first" /\ pc[e] = Idle) \/ req[e].at = "loop"

\* C26: an EventsHandler holds its channel registered and open from before it
\* reads the initial snapshot until its deferred Unsubscribe, and forwards
\* nothing before it has sent that snapshot; the snapshot is the stored poll
\* at the time of the read, so it counts every vote committed by then, and the
\* payload of every Broadcast of a VoteHandler is a committed count; when such
\* a Broadcast returns, for every handler of the poll that has read its initial
\* snapshot the count is in that snapshot, or the payload was enqueued into
\* the handler's channel, or the channel was found full.
C26_NoUpdateMissed ==
  /\ [](\A e \in Threads :
          Watching(e) => /\ Registered(req[e].id, req[e].ch)
                         /\ chans[req[e].ch].open)
  /\ [](\A e \in Threads :
          req[e].op = "Events" /\ req[e].at \in {"flusher", "first"}
            => recvd[req[e].ch] = <<>>)
  /\ [](\A v \in Threads :
          req[v].op = "Vote" /\ pc[v][1] = "Broadcast"
            => VotesIn(arg[v].data) <= StoredView[req[v].id].Options[1].Votes)
  /\ [][\A e \in Threads :
          req[e].op = "Events" /\ req[e].at = "first" /\ GetBody(e, TRUE)
            => Snaps(e)' = <<StoredView[req[e].id]>>]_vars
  /\ [][\A v, e \in Threads :
          /\ req[v].op = "Vote" /\ BroadcastReturn(v)
          /\ InitialRead(e) /\ req[e].id = req[v].id
          => \/ VotesIn(arg[v].data) <= Snaps(e)[1].Options[1].Votes
             \/ Copies(req[e].ch, bloc[v].call) # {}
             \/ req[e].ch \in bloc[v].full]_vars

\* C26 witness: a vote was committed while an EventsHandler was between its
\* Subscribe and its second Get: the initial snapshot counts it and its payload
\* is in the handler's channel as well; a later vote's payload follows
C26_Witness ==
  \E e \in Threads :
    /\ req[e].op = "Events" /\ req[e].at = "loop"
    /\ Snaps(e)[1].Options[1].Votes = 1
    /\ \E i, j \in DOMAIN History(req[e].ch) :
         /\ VotesIn(History(req[e].ch)[i].data) = 1
         /\ VotesIn(History(req[e].ch)[j].data) = 2

====
